---- MODULE Spec2Model ----
(***************************************************************************)
(* Model of the asr-dotnet introspection layer (src/asr-dotnet/src/lib.rs  *)
(* and the code generated by src/asr-dotnet/asr-dotnet-derive/src/lib.rs). *)
(*                                                                         *)
(* The remote process is a memory image `mem`: byte strings, typed objects *)
(* at addresses, and a set of unmapped pages on which every read fails.    *)
(* Each library operation is an operator that computes, from the image and *)
(* its arguments, the outcome of the call together with the log of the     *)
(* remote reads it issued.  An outcome is one of                           *)
(*    "Ok"    the call returned a value,                                   *)
(*    "Err"   the call returned Err(()) / None,                            *)
(*    "Panic" the call unwound (an unwrap on a failed read, a slice split  *)
(*            past the end, a bytemuck cast of a misaligned slice).        *)
(***************************************************************************)
EXTENDS Integers, Sequences, FiniteSets, TLC

VARIABLES mem, decl, binding, call, it, app

vars == <<mem, decl, binding, call, it, app>>

----------------------------------------------------------------------------
(* Program constants. *)

PageSize == 4096
ChunkCap == 256
StrBufLen == 32768
InstanceBufLen == 4096
SizeOfPtr == 8
SizeOfMonoClassField == 32
SizeOfMonoClassDef == 272
SizeOfSlot == 24
SizeOfMonoClassRuntimeInfo == 8
SizeOfMonoVTable == 64
SizeOfGList == 24

(* Bounds of the model. *)

MaxBufAlign == 4

----------------------------------------------------------------------------
(* Helpers. *)

MinOf(S) == CHOOSE x \in S : \A y \in S : x <= y

PageOf(a) == a \div PageSize

PagesOf(addr, len) == PageOf(addr)..PageOf(addr + len - 1)

Result(tag, val, log) == [tag |-> tag, val |-> val, log |-> log]

\* Op applied to the value of v: a let that evaluates v once, however often
\* Op uses it.
Let(v, Op(_)) == CHOOSE out \in { Op(x) : x \in {v} } : TRUE

\* The result r with the reads of `log` issued before its own.
After(log, r) == [r EXCEPT !.log = log \o @]

----------------------------------------------------------------------------
(* The remote read primitive. *)

\* One byte of the image: the byte of the run that covers the
\* address, 0 right after a run, the image's fill byte elsewhere.
Byte(m, a) ==
    LET hits == { s \in m.data : s.at <= a /\ a <= s.at + Len(s.chars) }
    IN  IF hits = {} THEN m.fill
        ELSE LET s == CHOOSE s \in hits : TRUE
             IN  IF a = s.at + Len(s.chars) THEN 0 ELSE s.chars[a - s.at + 1]

\* A read of len bytes at addr succeeds iff every page it touches is mapped.
Readable(m, addr, len) == PagesOf(addr, len) \cap m.unmapped = {}

BytesAt(m, addr, len) == [i \in 1..len |-> Byte(m, addr + i - 1)]

\* bstr's find_byte(chunk, 0) on the bytes just read: the offset of the first
\* 0 byte of [addr, addr + len), or -1.  The first 0 byte of a range is its
\* first byte or a byte of a run (or the 0 after a run) that overlaps it:
\* outside the runs every byte is the fill byte.
find_byte_0(m, addr, len) ==
    LET over == { s \in m.data : s.at < addr + len /\ addr <= s.at + Len(s.chars) }
        cand == {addr} \cup
                UNION { { a \in s.at..(s.at + Len(s.chars)) : addr <= a /\ a < addr + len }
                        : s \in over }
        zeros == { a \in cand : Byte(m, a) = 0 }
    IN  IF zeros = {} THEN -1 ELSE MinOf(zeros) - addr

----------------------------------------------------------------------------
(* Ptr<CStr>::read_str *)


\* The loop, iteration by iteration (k = 0, 1, ...).  Every iteration that
\* finds no NUL ends with addr = end, so iteration k >= 1 starts at the k-th
\* page boundary after ptr.
chunk_end(addr) == (addr - (addr % PageSize)) + PageSize
\* A chunk length that ignores the page boundary.
chunk_len_whole_cap(addr) == ChunkCap

chunk_len(addr) ==
    IF chunk_end(addr) - addr < ChunkCap THEN chunk_end(addr) - addr ELSE ChunkCap
chunk_addr(ptr, k) == IF k = 0 THEN ptr ELSE chunk_end(ptr) + (k - 1) * PageSize
chunk_req(ptr, k) == <<chunk_addr(ptr, k), chunk_len(chunk_addr(ptr, k))>>

\* buf.len() - cursor.len() at the start of iteration k: the lengths of the
\* chunks split off so far (all chunks after the first start on a page
\* boundary and have the same length).
used_before(ptr, k) ==
    IF k = 0 THEN 0
    ELSE chunk_len(ptr) + (k - 1) * chunk_len(chunk_end(ptr))

\* How iteration k ends: "split" (split_at_mut past the cursor's end),
\* "unwrap" (the read failed), "found" (a NUL in the chunk) or "next".
chunk_step(m, ptr, k) ==
    LET addr == chunk_addr(ptr, k)
        len == chunk_len(addr)
    IN  IF len > StrBufLen - used_before(ptr, k) THEN "split"
        ELSE IF ~Readable(m, addr, len) THEN "unwrap"
        ELSE IF find_byte_0(m, addr, len) >= 0 THEN "found"
        ELSE "next"

\* The iteration at which the loop ends.  Every chunk takes at least one
\* byte of the buffer, so the search ends ("split" at the latest).
RECURSIVE first_stop(_, _, _)
first_stop(m, ptr, k) ==
    IF chunk_step(m, ptr, k) # "next" THEN k ELSE first_stop(m, ptr, k + 1)

last_chunk(m, ptr) == first_stop(m, ptr, 0)

\* The byte at index i of the local buffer once chunks 0..k are read: the
\* buffer is filled front to back by the chunk reads.
buf_byte(m, ptr, i) ==
    IF i < chunk_len(ptr) THEN Byte(m, ptr + i)
    ELSE LET rel == i - chunk_len(ptr)
             l == chunk_len(chunk_end(ptr))
         IN  Byte(m, chunk_addr(ptr, 1 + (rel \div l)) + (rel % l))

\* The outcome of ptr.read_str(process, f) with f the identity on the slice.
read_str(m, ptr) ==
    Let(last_chunk(m, ptr), LAMBDA k :
    Let(chunk_step(m, ptr, k), LAMBDA how :
        IF how = "split"
        THEN Result("Panic", "split_at_mut", [j \in 1..k |-> chunk_req(ptr, j - 1)])
        ELSE IF how = "unwrap"
        THEN Result("Panic", "unwrap", [j \in 1..(k + 1) |-> chunk_req(ptr, j - 1)])
        ELSE LET pos == find_byte_0(m, chunk_addr(ptr, k), chunk_len(chunk_addr(ptr, k)))
                 total_len == used_before(ptr, k) + pos
             IN  Result("Ok", [i \in 1..total_len |-> buf_byte(m, ptr, i - 1)],
                        [j \in 1..(k + 1) |-> chunk_req(ptr, j - 1)])))

----------------------------------------------------------------------------
(* Ptr<T>::is_null, Ptr<T>::read and Ptr<T>::index *)

is_null(p) == p = 0

\* process.read::<T>(addr): the object stored at addr, when the read succeeds.
Ptr_read(m, addr, size) ==
    IF Readable(m, addr, size) /\ addr \in DOMAIN m.objs
    THEN Result("Ok", m.objs[addr], << <<addr, size>> >>)
    ELSE Result("Err", <<>>, << <<addr, size>> >>)

Ptr_index(m, addr, idx, size) == Ptr_read(m, addr + idx * size, size)

----------------------------------------------------------------------------
(* MonoImage::classes, searched lazily by Iterator::find as in the generated *)
(* bind: the walk stops at the first class whose name and namespace match.  *)

\* The closure of bind's find: name first, the namespace only on a name match.
class_matches(m, class, sname, ns) ==
    Let(read_str(m, class.klass.name), LAMBDA r1 :
        IF r1.tag = "Panic" THEN r1
        ELSE IF r1.val # sname THEN Result("Ok", FALSE, r1.log)
        ELSE Let(read_str(m, class.klass.name_space), LAMBDA r2 :
                 IF r2.tag = "Panic" THEN After(r1.log, r2)
                 ELSE Result("Ok", r2.val = ns, r1.log \o r2.log)))

\* The inner iterator of classes(): one bucket's chain.  A failed read of a
\* class ends the chain (read(process).ok()?).
RECURSIVE find_in_chain(_, _, _, _)
find_in_chain(m, class_ptr, sname, ns) ==
    IF class_ptr = 0 THEN Result("Err", <<>>, <<>>)
    ELSE Let(Ptr_read(m, class_ptr, SizeOfMonoClassDef), LAMBDA rd :
             IF rd.tag = "Err" THEN rd
             ELSE Let(class_matches(m, rd.val, sname, ns), LAMBDA mt :
                      IF mt.tag = "Panic" THEN After(rd.log, mt)
                      ELSE IF mt.val THEN Result("Ok", rd.val, rd.log \o mt.log)
                      ELSE After(rd.log \o mt.log,
                                 find_in_chain(m, rd.val.next_class_cache, sname, ns))))

\* The outer flat_map over 0..class_cache.size: the bucket head is read with
\* index(process, i).unwrap().
RECURSIVE find_class(_, _, _, _, _)
find_class(m, image, i, sname, ns) ==
    IF i >= image.class_cache.size THEN Result("Err", <<>>, <<>>)
    ELSE Let(Ptr_index(m, image.class_cache.table, i, SizeOfPtr), LAMBDA hd :
             IF hd.tag = "Err" THEN Result("Panic", "unwrap", hd.log)
             ELSE Let(find_in_chain(m, hd.val, sname, ns), LAMBDA ch :
                      IF ch.tag \in {"Ok", "Panic"} THEN After(hd.log, ch)
                      ELSE After(hd.log \o ch.log,
                                 find_class(m, image, i + 1, sname, ns))))

----------------------------------------------------------------------------
(* MonoClassDef::fields and MonoClassDef::find_field *)

\* fields() flattens the Result of each index(process, i): an entry whose read
\* fails is skipped.  find stops at the first entry whose name matches.
RECURSIVE find_field_from(_, _, _, _)
find_field_from(m, class, i, fname) ==
    IF i >= class.field_count THEN Result("Err", <<>>, <<>>)
    ELSE Let(Ptr_index(m, class.klass.fields, i, SizeOfMonoClassField), LAMBDA rd :
             IF rd.tag = "Err"
             THEN After(rd.log, find_field_from(m, class, i + 1, fname))
             ELSE Let(read_str(m, rd.val.name), LAMBDA nm :
                      IF nm.tag = "Panic" THEN After(rd.log, nm)
                      ELSE IF nm.val = fname
                      THEN Result("Ok", rd.val.offset, rd.log \o nm.log)
                      ELSE After(rd.log \o nm.log,
                                 find_field_from(m, class, i + 1, fname))))

find_field(m, class, fname) == find_field_from(m, class, 0, fname)

----------------------------------------------------------------------------
(* The iterators, run to their end (as by collect): the value of an "Ok"  *)
(* result is the sequence of the items yielded.                            *)

\* A traversal that leaves out every other bucket.
next_bucket_skip(i) == i + 2

\* The successor of bucket index i in the flat_map over 0..size.
next_bucket(i) == i + 1

\* The inner iterator of MonoImage::classes: a failed read of a class ends
\* the chain.
RECURSIVE chain_classes(_, _)
chain_classes(m, class_ptr) ==
    IF is_null(class_ptr) THEN Result("Ok", <<>>, <<>>)
    ELSE Let(Ptr_read(m, class_ptr, SizeOfMonoClassDef), LAMBDA rd :
             IF rd.tag = "Err" THEN Result("Ok", <<>>, rd.log)
             ELSE Let(chain_classes(m, rd.val.next_class_cache), LAMBDA rest :
                      Result("Ok", <<rd.val>> \o rest.val, rd.log \o rest.log)))

\* MonoImage::classes from bucket i on.
RECURSIVE classes_from(_, _, _)
classes_from(m, image, i) ==
    IF i >= image.class_cache.size THEN Result("Ok", <<>>, <<>>)
    ELSE Let(Ptr_index(m, image.class_cache.table, i, SizeOfPtr), LAMBDA hd :
             IF hd.tag = "Err" THEN Result("Panic", "unwrap", hd.log)
             ELSE Let(chain_classes(m, hd.val), LAMBDA ch :
                  Let(classes_from(m, image, next_bucket(i)), LAMBDA rest :
                      IF rest.tag = "Panic" THEN After(hd.log \o ch.log, rest)
                      ELSE Result("Ok", ch.val \o rest.val,
                                  hd.log \o ch.log \o rest.log))))

classes(m, image) == classes_from(m, image, 0)

\* The inner iterator of GHashTable::iter: the slot is read with unwrap.
RECURSIVE chain_slots(_, _)
chain_slots(m, slot_ptr) ==
    IF is_null(slot_ptr) THEN Result("Ok", <<>>, <<>>)
    ELSE Let(Ptr_read(m, slot_ptr, SizeOfSlot), LAMBDA rd :
             IF rd.tag = "Err" THEN Result("Panic", "unwrap", rd.log)
             ELSE Let(chain_slots(m, rd.val.next), LAMBDA rest :
                      IF rest.tag = "Panic" THEN After(rd.log, rest)
                      ELSE Result("Ok", << <<rd.val.key, rd.val.value>> >> \o rest.val,
                                  rd.log \o rest.log)))

\* GHashTable::iter from bucket i on: a bucket whose head cannot be read is
\* skipped (index(process, i).ok()? inside flat_map).
RECURSIVE GHashTable_iter_from(_, _, _)
GHashTable_iter_from(m, table, i) ==
    IF i >= table.table_size THEN Result("Ok", <<>>, <<>>)
    ELSE Let(Ptr_index(m, table.table, i, SizeOfPtr), LAMBDA hd :
             IF hd.tag = "Err"
             THEN After(hd.log, GHashTable_iter_from(m, table, next_bucket(i)))
             ELSE Let(chain_slots(m, hd.val), LAMBDA ch :
                      IF ch.tag = "Panic" THEN After(hd.log, ch)
                      ELSE Let(GHashTable_iter_from(m, table, next_bucket(i)), LAMBDA rest :
                               IF rest.tag = "Panic" THEN After(hd.log \o ch.log, rest)
                               ELSE Result("Ok", ch.val \o rest.val,
                                           hd.log \o ch.log \o rest.log))))

GHashTable_iter(m, table) == GHashTable_iter_from(m, table, 0)

\* Ptr<GList<T>>::iter: a failed read of a node ends the list.
RECURSIVE GList_iter(_, _)
GList_iter(m, ptr) ==
    IF is_null(ptr) THEN Result("Ok", <<>>, <<>>)
    ELSE Let(Ptr_read(m, ptr, SizeOfGList), LAMBDA rd :
             IF rd.tag = "Err" THEN Result("Ok", <<>>, rd.log)
             ELSE Let(GList_iter(m, rd.val.next), LAMBDA rest :
                      Result("Ok", <<rd.val.data>> \o rest.val, rd.log \o rest.log)))

\* MonoClassDef::fields from entry i on: an entry whose read fails is left out.
RECURSIVE fields_from(_, _, _)
fields_from(m, class, i) ==
    IF i >= class.field_count THEN Result("Ok", <<>>, <<>>)
    ELSE Let(Ptr_index(m, class.klass.fields, i, SizeOfMonoClassField), LAMBDA rd :
         Let(fields_from(m, class, i + 1), LAMBDA rest :
             Result("Ok", (IF rd.tag = "Err" THEN <<>> ELSE <<rd.val>>) \o rest.val,
                    rd.log \o rest.log)))

MonoClassDef_fields(m, class) == fields_from(m, class, 0)

----------------------------------------------------------------------------
(* Ptr::byte_offset, MonoClass::get_static_field_memory and                 *)
(* MonoClassDef::find_singleton.                                             *)

byte_offset(p, bytes) == p + bytes

\* The pointer to the static storage of the class: the vtable pointer stored
\* after the runtime info, then the pointer stored after the vtable's
\* vtable_size slots.
get_static_field_memory(m, klass) ==
    Let(Ptr_read(m, byte_offset(klass.runtime_info, SizeOfMonoClassRuntimeInfo), SizeOfPtr),
        LAMBDA vt :
            IF vt.tag = "Err" THEN vt
            ELSE After(vt.log, Ptr_index(m, byte_offset(vt.val, SizeOfMonoVTable),
                                         klass.vtable_size, SizeOfPtr)))

find_singleton(m, class, fname) ==
    Let(find_field(m, class, fname), LAMBDA ff :
        IF ff.tag # "Ok" THEN ff
        ELSE Let(get_static_field_memory(m, class.klass), LAMBDA sm :
                 IF sm.tag = "Err" THEN After(ff.log, sm)
                 ELSE Let(Ptr_read(m, byte_offset(sm.val, ff.val), SizeOfPtr), LAMBDA rd :
                          IF rd.tag = "Err" THEN After(ff.log \o sm.log, rd)
                          ELSE IF is_null(rd.val)
                          THEN Result("Err", <<>>, ff.log \o sm.log \o rd.log)
                          ELSE Result("Ok", rd.val, ff.log \o sm.log \o rd.log))))

----------------------------------------------------------------------------
(* The generated bind *)

\* let #field_names = class.find_field(process, #name).ok_or(())?;  in order.
RECURSIVE bind_fields(_, _, _, _)
bind_fields(m, class, fields, k) ==
    IF k > Len(fields) THEN Result("Ok", <<>>, <<>>)
    ELSE Let(find_field(m, class, fields[k].name), LAMBDA ff :
             IF ff.tag # "Ok" THEN ff
             ELSE Let(bind_fields(m, class, fields, k + 1), LAMBDA rest :
                      IF rest.tag = "Ok"
                      THEN Result("Ok", <<ff.val>> \o rest.val, ff.log \o rest.log)
                      ELSE After(ff.log, rest)))

bind(m, image, desc) ==
    Let(find_class(m, image, 0, desc.name, desc.name_space), LAMBDA fc :
        IF fc.tag # "Ok" THEN fc
        ELSE Let(bind_fields(m, fc.val, desc.fields, 1), LAMBDA bf :
                 IF bf.tag # "Ok" THEN After(fc.log, bf)
                 ELSE Result("Ok",
                             [class |-> fc.val, offsets |-> bf.val, desc |-> desc],
                             fc.log \o bf.log)))

----------------------------------------------------------------------------
(* MonoClass::get_instance and the generated load *)

\* An i32 cast to usize: a negative value becomes one of at least 2^31, which
\* is past the end of every local buffer, so slicing with it yields None.
\* slice.get(..n) on a slice of length len:
SliceTo(len, n) == n >= 0 /\ n <= len

\* bytemuck::from_bytes on size_of::<T>() bytes at buffer address `at`: it
\* panics when the slice is not aligned for T.
from_bytes_aligned(at, ty) == at % ty.align = 0

\* The closure of load, one declared field after the other.  `snap` is the
\* local snapshot (indexed from 0, `n` bytes long), `base` the address of the
\* stack buffer that holds it.
RECURSIVE decode_fields(_, _, _, _, _, _)
decode_fields(snap, n, base, fields, offsets, k) ==
    IF k > Len(fields) THEN Result("Ok", <<>>, <<>>)
    ELSE LET off == offsets[k]
             ty  == fields[k]
         IN  IF ~SliceTo(n, off) THEN Result("Err", <<>>, <<>>)
             ELSE IF ~SliceTo(n - off, ty.size) THEN Result("Err", <<>>, <<>>)
             ELSE IF ~from_bytes_aligned(base + off, ty)
             THEN Result("Panic", "from_bytes", <<>>)
             ELSE Let(decode_fields(snap, n, base, fields, offsets, k + 1), LAMBDA rest :
                      IF rest.tag = "Ok"
                      THEN Result("Ok",
                                  << [j \in 1..ty.size |-> snap[off + j - 1]] >> \o rest.val,
                                  <<off + ty.size>> \o rest.log)
                      ELSE After(<<off + ty.size>>, rest))

\* A variant of buf_get_mut without the cap: every size yields a slice.
buf_get_mut_uncapped(n) == TRUE

\* buf.get_mut(..self.instance_size as usize) on the [u8; 4 << 10] local.
buf_get_mut(n) == SliceTo(InstanceBufLen, n)

\* A variant of read_into_buf that fetches the range a second time.
read_into_buf_twice(m, addr, n) ==
    Result(IF Readable(m, addr, n) THEN "Ok" ELSE "Err", <<>>,
           << <<addr, n>>, <<addr, n>> >>)

\* process.read_into_buf(addr, buf) with buf of n bytes: one remote read.
read_into_buf(m, addr, n) ==
    Result(IF Readable(m, addr, n) THEN "Ok" ELSE "Err", <<>>, << <<addr, n>> >>)

\* The bytes a successful read_into_buf leaves in buf, indexed from 0.
buf_after_read(m, addr, n) == [i \in 0..(n - 1) |-> Byte(m, addr + i)]

\* get_instance, with `r` the value the closure f returns on the snapshot
\* (used only where f is called): `fcalled` tells whether the closure was
\* invoked, `log` the remote reads issued.  The closure's own Result is
\* returned as it is (load applies `?` to the outer Result only); `touched`
\* lists, for every field the closure sliced, the end of the byte range it
\* took from the snapshot.
get_instance(m, klass, instance, r) ==
    LET n == klass.instance_size
    IN  IF ~buf_get_mut(n)
        THEN [tag |-> "Err", val |-> <<>>, log |-> <<>>, fcalled |-> FALSE,
              touched |-> <<>>]
        ELSE LET rd == read_into_buf(m, instance, n)
             IN  IF rd.tag = "Err"
                 THEN [tag |-> "Err", val |-> <<>>, log |-> rd.log,
                       fcalled |-> FALSE, touched |-> <<>>]
                 ELSE Let(r, LAMBDA fr :
                          [tag |-> fr.tag, val |-> fr.val, log |-> rd.log,
                           fcalled |-> TRUE, touched |-> fr.log])

load(m, b, instance, base) ==
    LET n == b.class.klass.instance_size
    IN  get_instance(m, b.class.klass, instance,
                     decode_fields(buf_after_read(m, instance, n), n, base,
                                   b.desc.fields, b.offsets, 1))

----------------------------------------------------------------------------
(* Memory images holding one string. *)

StrStarts == { 4096, 4097, 7935, 7936, 7937, 8191 }
StrLens == { 0, 1, 255, 256, 257, 300 }
FillBytes == { 0, 170 }

StrChars(n) == [i \in 1..n |-> 1 + (i % 255)]

NoImage == [class_cache |-> [size |-> 0, table |-> 0]]

StrImage(start, n, fill, unmapped) ==
    [ kind |-> "str",
      data |-> { [at |-> start, chars |-> StrChars(n)] },
      objs |-> <<>>,
      fill |-> fill,
      unmapped |-> {0} \cup unmapped,
      image |-> NoImage,
      ptr |-> start,
      instance |-> 0 ]

StrImages ==
    { StrImage(s, n, f, u) : s \in StrStarts, n \in StrLens, f \in FillBytes,
                             u \in { {}, {2} } }

----------------------------------------------------------------------------
(* Memory images holding a class cache: two classes named "T", one in the  *)
(* empty namespace (TG) and one in namespace "N" (TN), their field tables,  *)
(* their name strings and one instance.                                     *)

NameT == <<84>>
NameN == <<78>>
NameA == <<97>>
NameB == <<98>>
NameC == <<99>>

TableAddr == 16 * PageSize
ClassAddr(c) == IF c = "TG" THEN 17 * PageSize ELSE 18 * PageSize
ClassNameAddr == 19 * PageSize
NsEmptyAddr == 19 * PageSize + 16
NsNAddr == 19 * PageSize + 32
\* The name of entry i of TG's field table lies on a page of its own.
FieldNameAddr(i) == (20 + i) * PageSize + 8
\* TG's field table ends with its last entry alone on page 25.
FieldsAddr(count) == 25 * PageSize - SizeOfMonoClassField * (count - 1)
FieldsAddrTN == 26 * PageSize
FieldNameAddrTN == 26 * PageSize + 64
InstAddr == 28 * PageSize + 4000
InstBytes == <<16, 17, 18, 19, 20, 21, 22, 23, 24, 25, 26, 27>>
\* TG's runtime info, its vtable (of VTableSize slots) and its static storage,
\* each on a page of its own; TN has no runtime info yet.  The static field
\* at offset 4 holds null, every other one the address of the instance.
RuntimeInfoAddr == 30 * PageSize
VTableAddr == 31 * PageSize
VTableSize == 2
StaticAddr == 32 * PageSize
StaticValue(offset) == IF offset = 4 THEN 0 ELSE InstAddr

\* Field tables of TG: entries of (name, offset).
FE(name, offset) == [name |-> name, offset |-> offset]
FieldTables ==
    { <<>>,
      <<FE(NameA, 0)>>,
      <<FE(NameA, 0), FE(NameB, 4)>>,
      <<FE(NameB, 4), FE(NameA, 0)>>,
      <<FE(NameA, 4), FE(NameA, 0)>>,
      <<FE(NameA, 6), FE(NameB, 4)>>,
      <<FE(NameA, 0), FE(NameB, 8)>>,
      <<FE(NameC, 0), FE(NameA, -4), FE(NameB, 5)>> }

\* Bucket layouts of the class cache: the chain of each bucket.
Layouts ==
    { << <<"TG">>, <<"TN">> >>,
      << <<"TN", "TG">>, <<>> >>,
      << <<>>, <<"TN">> >>,
      << <<"TN">>, <<>>, <<"TG">> >> }

InstanceSizes == { -1, 8, InstanceBufLen, InstanceBufLen + 1 }

NextInChain(layout, c) ==
    LET b == CHOOSE b \in 1..Len(layout) : \E k \in 1..Len(layout[b]) : layout[b][k] = c
        k == CHOOSE k \in 1..Len(layout[b]) : layout[b][k] = c
    IN  IF k < Len(layout[b]) THEN ClassAddr(layout[b][k + 1]) ELSE 0

ClassObj(layout, c, ft, size) ==
    [ klass |-> [ name |-> ClassNameAddr,
                  name_space |-> IF c = "TG" THEN NsEmptyAddr ELSE NsNAddr,
                  instance_size |-> IF c = "TG" THEN size ELSE InstanceBufLen + 1,
                  fields |-> IF c = "TG" THEN FieldsAddr(Len(ft)) ELSE FieldsAddrTN,
                  runtime_info |-> IF c = "TG" THEN RuntimeInfoAddr ELSE 0,
                  vtable_size |-> IF c = "TG" THEN VTableSize ELSE 0 ],
      field_count |-> IF c = "TG" THEN Len(ft) ELSE 1,
      next_class_cache |-> NextInChain(layout, c) ]

InLayout(layout) ==
    { c \in {"TG", "TN"} : \E b \in 1..Len(layout) : \E k \in 1..Len(layout[b]) : layout[b][k] = c }

ObjAddrs(layout, ft) ==
    { TableAddr + SizeOfPtr * (b - 1) : b \in 1..Len(layout) }
    \cup { ClassAddr(c) : c \in InLayout(layout) }
    \cup { FieldsAddr(Len(ft)) + SizeOfMonoClassField * (i - 1) : i \in 1..Len(ft) }
    \cup { FieldsAddrTN }
    \cup { RuntimeInfoAddr + SizeOfMonoClassRuntimeInfo,
           VTableAddr + SizeOfMonoVTable + SizeOfPtr * VTableSize }
    \cup { StaticAddr + ft[i].offset : i \in { j \in 1..Len(ft) : ft[j].offset >= 0 } }

ObjAt(layout, ft, size, a) ==
    IF \E b \in 1..Len(layout) : a = TableAddr + SizeOfPtr * (b - 1)
    THEN LET b == CHOOSE b \in 1..Len(layout) : a = TableAddr + SizeOfPtr * (b - 1)
         IN  IF layout[b] = <<>> THEN 0 ELSE ClassAddr(layout[b][1])
    ELSE IF \E c \in InLayout(layout) : a = ClassAddr(c)
    THEN ClassObj(layout, CHOOSE c \in InLayout(layout) : a = ClassAddr(c), ft, size)
    ELSE IF a = FieldsAddrTN
    THEN [name |-> FieldNameAddrTN, offset |-> 0]
    ELSE IF a = RuntimeInfoAddr + SizeOfMonoClassRuntimeInfo
    THEN VTableAddr
    ELSE IF a = VTableAddr + SizeOfMonoVTable + SizeOfPtr * VTableSize
    THEN StaticAddr
    ELSE IF a >= StaticAddr
    THEN StaticValue(a - StaticAddr)
    ELSE LET i == CHOOSE i \in 1..Len(ft) :
                     a = FieldsAddr(Len(ft)) + SizeOfMonoClassField * (i - 1)
         IN  [name |-> FieldNameAddr(i), offset |-> ft[i].offset]

ClassImage(layout, ft, size, unmapped) ==
    [ kind |-> "class",
      data |-> { [at |-> ClassNameAddr, chars |-> NameT],
                 [at |-> NsEmptyAddr, chars |-> <<>>],
                 [at |-> NsNAddr, chars |-> NameN],
                 [at |-> FieldNameAddrTN, chars |-> NameA],
                 [at |-> InstAddr, chars |-> InstBytes] }
               \cup { [at |-> FieldNameAddr(i), chars |-> ft[i].name] : i \in 1..Len(ft) },
      objs |-> [a \in ObjAddrs(layout, ft) |-> ObjAt(layout, ft, size, a)],
      fill |-> 170,
      unmapped |-> {0} \cup unmapped,
      image |-> [class_cache |-> [size |-> Len(layout), table |-> TableAddr]],
      ptr |-> ClassNameAddr,
      instance |-> InstAddr,
      layout |-> layout,
      ft |-> ft ]

\* The pages a fault can hit: at most one of them is unmapped in an image.
FaultPages == { 16, 17, 18, 19, 21, 22, 23, 24, 25, 26, 28, 30, 31, 32 }

ClassImages ==
    { ClassImage(l, ft, sz, {}) : l \in Layouts, ft \in FieldTables, sz \in InstanceSizes }
    \cup
    { ClassImage(l, ft, 8, {p}) :
        l \in { << <<"TG">>, <<"TN">> >>, << <<"TN", "TG">>, <<>> >> },
        ft \in { <<FE(NameA, 0)>>,
                 <<FE(NameA, 0), FE(NameB, 4)>>,
                 <<FE(NameA, 4), FE(NameA, 0)>>,
                 <<FE(NameC, 0), FE(NameA, -4), FE(NameB, 5)>> },
        p \in FaultPages }

----------------------------------------------------------------------------
(* Memory images holding a GHashTable of up to three slots and a GList:    *)
(* slot id has key 1000 + id and value 2000 + id, node j has data 3000 + j. *)
(* Every slot and every node lies on a page of its own.                     *)

MaxListLen == 3

HStrAddr == 39 * PageSize
HTableAddr == 40 * PageSize
SlotAddr(id) == (40 + id) * PageSize
ListAddr(j) == (50 + j) * PageSize
SlotKey(id) == 1000 + id
SlotValue(id) == 2000 + id
NodeData(j) == 3000 + j

\* Bucket layouts of the hash table: the chain of slot ids of each bucket.
HashLayouts ==
    { << <<>>, <<>>, <<>> >>,
      << <<1>> >>,
      << <<1>>, <<>>, <<2>> >>,
      << <<2, 1>>, <<>>, <<3>> >>,
      << <<>>, <<1, 2, 3>>, <<>> >>,
      << <<3>>, <<2>>, <<1>> >>,
      << <<>>, <<>>, <<1, 2>> >> }

SlotIds(layout) ==
    { id \in 1..3 : \E b \in 1..Len(layout) : \E k \in 1..Len(layout[b]) : layout[b][k] = id }

NextSlot(layout, id) ==
    LET b == CHOOSE b \in 1..Len(layout) : \E k \in 1..Len(layout[b]) : layout[b][k] = id
        k == CHOOSE k \in 1..Len(layout[b]) : layout[b][k] = id
    IN  IF k < Len(layout[b]) THEN SlotAddr(layout[b][k + 1]) ELSE 0

HashObjAddrs(layout, n) ==
    { HTableAddr + SizeOfPtr * (b - 1) : b \in 1..Len(layout) }
    \cup { SlotAddr(id) : id \in SlotIds(layout) }
    \cup { ListAddr(j) : j \in 1..n }

HashObjAt(layout, n, a) ==
    IF \E b \in 1..Len(layout) : a = HTableAddr + SizeOfPtr * (b - 1)
    THEN LET b == CHOOSE b \in 1..Len(layout) : a = HTableAddr + SizeOfPtr * (b - 1)
         IN  IF layout[b] = <<>> THEN 0 ELSE SlotAddr(layout[b][1])
    ELSE IF \E id \in SlotIds(layout) : a = SlotAddr(id)
    THEN LET id == CHOOSE id \in SlotIds(layout) : a = SlotAddr(id)
         IN  [key |-> SlotKey(id), value |-> SlotValue(id), next |-> NextSlot(layout, id)]
    ELSE LET j == CHOOSE j \in 1..n : a = ListAddr(j)
         IN  [data |-> NodeData(j), next |-> IF j < n THEN ListAddr(j + 1) ELSE 0,
              prev |-> IF j > 1 THEN ListAddr(j - 1) ELSE 0]

HashImage(layout, n, unmapped) ==
    [ kind |-> "hash",
      data |-> { [at |-> HStrAddr, chars |-> NameT] },
      objs |-> [a \in HashObjAddrs(layout, n) |-> HashObjAt(layout, n, a)],
      fill |-> 0,
      unmapped |-> {0} \cup unmapped,
      image |-> NoImage,
      ptr |-> HStrAddr,
      instance |-> 0,
      layout |-> layout,
      table |-> [table |-> HTableAddr, table_size |-> Len(layout)],
      list |-> IF n = 0 THEN 0 ELSE ListAddr(1),
      list_len |-> n ]

HashFaultPages == { 40, 41, 42, 43, 51, 52, 53 }

HashImages ==
    { HashImage(l, n, {}) : l \in HashLayouts, n \in 0..MaxListLen }
    \cup { HashImage(l, n, {p}) : l \in HashLayouts, n \in 0..MaxListLen, p \in HashFaultPages }

----------------------------------------------------------------------------
(* The record types the program binds (the derive's input): the struct      *)
(* name, its namespace attribute and its fields with the size and alignment *)
(* of their types.                                                          *)

F32(name) == [name |-> name, size |-> 4, align |-> 4]
U8(name) == [name |-> name, size |-> 1, align |-> 1]

Desc(ns, fields) == [name |-> NameT, name_space |-> ns, fields |-> fields]

Descs ==
    { Desc(<<>>, <<F32(NameA)>>),
      Desc(<<>>, <<F32(NameA), U8(NameB)>>),
      Desc(<<>>, <<U8(NameB), F32(NameA)>>),
      Desc(NameN, <<F32(NameA)>>) }

\* The addresses the local instance buffer may have, modulo the largest
\* alignment of a field type: the array is a [u8; N] local, placed anywhere.
BufBases == 0..(MaxBufAlign - 1)

----------------------------------------------------------------------------
(* Actions. *)

NoDesc == Desc(<<>>, <<>>)

\* The library's memory image plays no part in a run of main.
NoMem == [kind |-> "none"]

\* No iterator has been made, and the auto splitter's main is not running.
NoIter == [kind |-> "none", state |-> "idle", i |-> 0, ptr |-> 0, yielded |-> <<>>,
           log |-> <<>>]
NoApp == [phase |-> "none"]

NoCall == [op |-> "none", tag |-> "none", val |-> <<>>, log |-> <<>>,
           fcalled |-> FALSE, touched |-> <<>>, base |-> 0, instance |-> 0,
           class |-> <<>>, name |-> <<>>]

Init ==
    /\ \/ mem \in StrImages /\ decl = NoDesc
       \/ mem \in ClassImages /\ decl \in Descs
       \/ mem \in HashImages /\ decl = NoDesc
    /\ binding = <<>>
    /\ call = NoCall
    /\ it = NoIter
    /\ app = NoApp

\* ptr.read_str(process, |s| s) on the image's string pointer.
ReadStr ==
    /\ \E r \in { read_str(mem, mem.ptr) } :
          call' = [NoCall EXCEPT !.op = "read_str", !.tag = r.tag, !.val = r.val,
                                 !.log = r.log]
    /\ UNCHANGED <<mem, decl, binding, it, app>>

\* T::bind(&image, &process) for the program's record type.
Bind ==
    /\ decl # NoDesc
    /\ \E r \in { bind(mem, mem.image, decl) } :
          /\ call' = [NoCall EXCEPT !.op = "bind", !.tag = r.tag, !.val = r.val,
                                    !.log = r.log]
          /\ binding' = IF r.tag = "Ok" THEN <<r.val>> ELSE <<>>
    /\ UNCHANGED <<mem, decl, it, app>>

\* binding.load(&process, instance), the local buffer at an address of
\* residue `base`.
Load ==
    /\ binding # <<>>
    /\ \E inst \in {mem.instance, 0}, base \in BufBases :
        \E r \in { load(mem, binding[1], inst, base) } :
            call' = [op |-> "load", tag |-> r.tag, val |-> r.val, log |-> r.log,
                     fcalled |-> r.fcalled, touched |-> r.touched, base |-> base,
                     instance |-> inst]
    /\ UNCHANGED <<mem, decl, binding, it, app>>

\* A dereference of the null pointer: Ptr(0).read(process),
\* Ptr(0).index(process, 0) or Ptr(0).read_str(process, |s| s).
NullDeref ==
    /\ \E op \in {"null_read", "null_index", "null_read_str"} :
        \E r \in { IF op = "null_read" THEN Ptr_read(mem, 0, SizeOfPtr)
                   ELSE IF op = "null_index" THEN Ptr_index(mem, 0, 0, SizeOfPtr)
                   ELSE read_str(mem, 0) } :
            call' = [NoCall EXCEPT !.op = op, !.tag = r.tag, !.val = r.val, !.log = r.log]
    /\ UNCHANGED <<mem, decl, binding, it, app>>

\* image.classes(&process).collect()
Classes ==
    /\ mem.kind = "class"
    /\ \E r \in { classes(mem, mem.image) } :
          call' = [NoCall EXCEPT !.op = "classes", !.tag = r.tag, !.val = r.val,
                                 !.log = r.log]
    /\ UNCHANGED <<mem, decl, binding, it, app>>

\* table.iter(&process).collect() on the image's GHashTable
HashIter ==
    /\ mem.kind = "hash"
    /\ \E r \in { GHashTable_iter(mem, mem.table) } :
          call' = [NoCall EXCEPT !.op = "hash_iter", !.tag = r.tag, !.val = r.val,
                                 !.log = r.log]
    /\ UNCHANGED <<mem, decl, binding, it, app>>

\* list.iter(&process).collect() on the image's GList
ListIter ==
    /\ mem.kind = "hash"
    /\ \E r \in { GList_iter(mem, mem.list) } :
          call' = [NoCall EXCEPT !.op = "list_iter", !.tag = r.tag, !.val = r.val,
                                 !.log = r.log]
    /\ UNCHANGED <<mem, decl, binding, it, app>>

\* binding.class().fields(&process).collect()
Fields ==
    /\ binding # <<>>
    /\ \E r \in { MonoClassDef_fields(mem, binding[1].class) } :
          call' = [NoCall EXCEPT !.op = "fields", !.tag = r.tag, !.val = r.val,
                                 !.log = r.log]
    /\ UNCHANGED <<mem, decl, binding, it, app>>

\* class.find_field(process, name) on a class of the image's class cache
FindField ==
    /\ mem.kind = "class"
    /\ \E c \in InLayout(mem.layout), fname \in {NameA, NameB, NameC} :
        \E r \in { find_field(mem, mem.objs[ClassAddr(c)], fname) } :
            call' = [NoCall EXCEPT !.op = "find_field", !.tag = r.tag, !.val = r.val,
                                   !.log = r.log, !.class = mem.objs[ClassAddr(c)],
                                   !.name = fname]
    /\ UNCHANGED <<mem, decl, binding, it, app>>

\* class.find_singleton(process, name) on a class of the image's class
\* cache, for the names of its static fields (b and c, of offset 0 or more).
FindSingleton ==
    /\ mem.kind = "class"
    /\ \E c \in InLayout(mem.layout), fname \in {NameB, NameC} :
        \E r \in { find_singleton(mem, mem.objs[ClassAddr(c)], fname) } :
            call' = [NoCall EXCEPT !.op = "find_singleton", !.tag = r.tag, !.val = r.val,
                                   !.log = r.log, !.class = mem.objs[ClassAddr(c)],
                                   !.name = fname]
    /\ UNCHANGED <<mem, decl, binding, it, app>>

Next ==
    \/ ReadStr \/ Bind \/ Load \/ NullDeref
    \/ Classes \/ HashIter \/ ListIter \/ Fields
    \/ FindField \/ FindSingleton

Spec == Init /\ [][Next]_vars

----------------------------------------------------------------------------
(* The iterators one call of next() at a time: `it` is the state the        *)
(* closures of flat_map and from_fn hold between two calls.                  *)
(*   kind     "classes" (MonoImage::classes), "hash" (GHashTable::iter) or   *)
(*            "list" (Ptr<GList<T>>::iter)                                   *)
(*   state    "outer": flat_map takes the next bucket; "inner": from_fn      *)
(*            walks a chain; "done": next() has returned None; "panicked"    *)
(*   i, ptr   the bucket index and the chain pointer                         *)

IterKinds(m) ==
    IF m.kind = "class" THEN {"classes"}
    ELSE IF m.kind = "hash" THEN {"hash", "list"}
    ELSE {}

\* The number of buckets and the bucket array the iterator runs over.
iter_size(m, kind) == IF kind = "classes" THEN m.image.class_cache.size ELSE m.table.table_size
iter_table(m, kind) == IF kind = "classes" THEN m.image.class_cache.table ELSE m.table.table
iter_node_size(kind) ==
    IF kind = "classes" THEN SizeOfMonoClassDef ELSE IF kind = "hash" THEN SizeOfSlot
    ELSE SizeOfGList

\* Where the iterator goes when from_fn returns None and never leaves.
after_chain_stuck(kind) == "inner"

\* Where the iterator goes when from_fn returns None: flat_map takes the next
\* bucket; the list iterator is exhausted.
after_chain(kind) == IF kind = "list" THEN "done" ELSE "outer"

InitIter ==
    /\ mem \in ClassImages \cup HashImages
    /\ decl = NoDesc
    /\ binding = <<>>
    /\ call = NoCall
    /\ it = NoIter
    /\ app = NoApp

\* image.classes(process), table.iter(process) or list.iter(process)
IterNew ==
    /\ it.state = "idle"
    /\ \E kind \in IterKinds(mem) :
          it' = [NoIter EXCEPT !.kind = kind,
                               !.state = IF kind = "list" THEN "inner" ELSE "outer",
                               !.ptr = IF kind = "list" THEN mem.list ELSE 0]
    /\ UNCHANGED <<mem, decl, binding, call, app>>

\* flat_map has no more buckets: next() returns None.
IterExhausted ==
    /\ it.state = "outer"
    /\ it.i >= iter_size(mem, it.kind)
    /\ it' = [it EXCEPT !.state = "done"]
    /\ UNCHANGED <<mem, decl, binding, call, app>>

\* flat_map calls its closure on bucket i: the head of the bucket is read.
IterBucket ==
    /\ it.state = "outer"
    /\ it.i < iter_size(mem, it.kind)
    /\ \E hd \in { Ptr_index(mem, iter_table(mem, it.kind), it.i, SizeOfPtr) } :
          it' = IF hd.tag = "Ok"
                THEN [it EXCEPT !.state = "inner", !.ptr = hd.val,
                                !.i = next_bucket(it.i), !.log = @ \o hd.log]
                ELSE IF it.kind = "classes"
                THEN [it EXCEPT !.state = "panicked", !.log = @ \o hd.log]
                ELSE [it EXCEPT !.i = next_bucket(it.i), !.log = @ \o hd.log]
    /\ UNCHANGED <<mem, decl, binding, call, app>>

\* from_fn's closure on a null chain pointer: the chain is exhausted.
IterChainEnd ==
    /\ it.state = "inner"
    /\ is_null(it.ptr)
    /\ it' = [it EXCEPT !.state = after_chain(it.kind)]
    /\ UNCHANGED <<mem, decl, binding, call, app>>

\* from_fn's closure on a non-null chain pointer: the node is read.
IterChainStep ==
    /\ it.state = "inner"
    /\ ~is_null(it.ptr)
    /\ \E rd \in { Ptr_read(mem, it.ptr, iter_node_size(it.kind)) } :
          it' = IF rd.tag = "Ok"
                THEN [it EXCEPT !.ptr = IF it.kind = "classes" THEN rd.val.next_class_cache
                                        ELSE rd.val.next,
                                !.yielded = Append(@, IF it.kind = "classes" THEN rd.val
                                                      ELSE IF it.kind = "hash"
                                                      THEN <<rd.val.key, rd.val.value>>
                                                      ELSE rd.val.data),
                                !.log = @ \o rd.log]
                ELSE IF it.kind = "hash"
                THEN [it EXCEPT !.state = "panicked", !.log = @ \o rd.log]
                ELSE [it EXCEPT !.state = after_chain(it.kind), !.log = @ \o rd.log]
    /\ UNCHANGED <<mem, decl, binding, call, app>>

NextIter == IterNew \/ IterExhausted \/ IterBucket \/ IterChainEnd \/ IterChainStep

\* The consumer of an iterator (collect, find, a for loop) calls next() until
\* it returns None.
SpecIter == InitIter /\ [][NextIter]_vars /\ WF_vars(NextIter)

----------------------------------------------------------------------------
(* The auto splitter's main (src/src/lib.rs): attach to the game, resolve   *)
(* the bindings and the instance pointers (GameInfo::load), then poll.      *)
(* `app` holds                                                              *)
(*   phase      where main waits: "attach" (retry of Process::attach), one  *)
(*              of the awaits of GameInfo::load, or "tick" (next_tick in    *)
(*              the polling loop)                                           *)
(*   resolved   the locals of GameInfo::load bound so far, in order         *)
(*   is_dlc     which GameManager binding the session has                   *)
(*   gmw, tw, tsw   the watchers: <<>> or <<[old, current]>>                *)
(*   run_time, beyond_first_level   the locals of main that outlive a       *)
(*              session                                                     *)
(*   ts         the state of the timer the runtime reports (timer::state)   *)
(*   split_called   whether timer::split was called since a tick last saw   *)
(*              the timer leave NotRunning                                  *)
(*   history, game_time, run   in the behaviours that record the history of *)
(*              the runtime's timer: the game time it was given last, and   *)
(*              whether a tick has seen the timer leave NotRunning          *)
(*   last       the step main made last: its name, the calls it made on the *)
(*              bindings, whether the two decodes succeeded, and the timer  *)
(*              operations it called, in order                              *)

MaxRunTime == 1

\* game_state::RESULTS and another game state; the levels the code tells apart.
MISSION == 0
RESULTS == 6
LEVEL_1_1 == 0
LEVEL_2_1 == 2
LEVEL_7_2 == 13

Level(n) == <<"Level", n>>
Scene(name) == <<"Scene", name>>

\* What a decode of the game manager and of the timer can give.
GameManagerSamples(dlc) ==
    [ game_state : {MISSION, RESULTS},
      level_or_scene : IF dlc THEN { Scene("Shrine01"), Scene("") }
                       ELSE { Level(LEVEL_1_1), Level(LEVEL_2_1), Level(LEVEL_7_2) } ]
TimerSamples == [ level_time : {0, 1}, timer_stopped : BOOLEAN ]
\* The timer states of the runtime that take the three arms of main's match
\* (Paused takes the arm of Running).
TimerStates == { "NotRunning", "Running", "Ended" }

is_in_first_level(los) ==
    IF los[1] = "Level" THEN los[2] = LEVEL_1_1 ELSE los[2] = "Shrine01"
is_in_final_level(los) == IF los[1] = "Level" THEN los[2] >= LEVEL_7_2 ELSE FALSE
is_in_credits(los) == IF los[1] = "Level" THEN los[2] = LEVEL_2_1 ELSE FALSE

\* asr's Watcher and Pair, by their contract: update(None) forgets the pair
\* and returns None; update(Some(v)) shifts current to old; check(f) holds
\* when f is false of old and true of current; changed_from(v) when old is v
\* and current is not.
Watcher_update(w, value) ==
    IF value = <<>> THEN <<>>
    ELSE IF w = <<>> THEN << [old |-> value[1], current |-> value[1]] >>
    ELSE << [old |-> w[1].current, current |-> value[1]] >>
Watcher_update_infallible(w, value) == Watcher_update(w, <<value>>)
changed_from(pair, value) == pair.old = value /\ pair.current # value

\* The runtime's timer, by its contract: the state after an operation.
timer_after(state, op) ==
    IF op = "start" THEN (IF state = "NotRunning" THEN "Running" ELSE state)
    ELSE IF op = "reset" THEN "NotRunning"
    ELSE state

\* The game time the runtime's timer shows after an operation: what
\* set_game_time gave it last, nothing once the timer is reset.
game_time_after(game_time, op) ==
    IF op[1] = "set_game_time" THEN op[2]
    ELSE IF op[1] = "reset" THEN 0
    ELSE game_time

\* future::select by its contract: the left future wins when it is ready at
\* the poll, the right one only when the left one is not.
select(left_ready, right_ready) == IF left_ready THEN "Left" ELSE "Right"

\* GameManagerBinding::bind: whether the binding is the DLC one, the lookups
\* of the original and of the DLC class being ready or not at the poll that
\* resolves the race.
GameManagerBinding_bind(original_ready, dlc_ready) ==
    select(original_ready, dlc_ready) = "Right"

\* The names of the static fields GameInfo::load asks for.
game_manager_instance_field == "<Instance>k__BackingField"
timer_instance_field_original(dlc) == "_instance"
timer_instance_field(dlc) == IF dlc THEN "<Instance>k__BackingField" ELSE "_instance"

\* The awaits of GameInfo::load in order, and what each of them binds.
LoadSteps ==
    << "module", "image", "game_manager_class", "game_manager_instance",
       "timer_class", "timer_instance" >>

\* The phase main is in when the first n awaits of load have resolved.
phase_after_skipping(n) == "tick"
phase_after(n) == IF n < Len(LoadSteps) THEN LoadSteps[n + 1] ELSE "tick"

\* The calls one iteration of the polling loop makes on the bindings.
tick_calls_rebinding == << "bind", "read", "read" >>
tick_calls == << "read", "read" >>

\* A decode of the game manager that falls back to a default sample.
game_manager_sample_or_default(read) ==
    IF read = <<>> THEN << [game_state |-> MISSION, level_or_scene |-> Level(LEVEL_1_1)] >>
    ELSE read

\* binding.read(&process, instance).ok(): the sample of a decode, None
\* (<<>>) for a failed one.
game_manager_sample(read) == read
timer_sample(read) == read

\* if let (Some(game_manager), Some(timer)) = (game_manager, timer)
both_samples(gm, t) == gm # <<>> /\ t # <<>>

\* What a step remembers of the locals of main and of the runtime as they
\* were when it began.
NoBefore == [run_time |-> 0, beyond_first_level |-> FALSE, split_called |-> FALSE]

NoStep == [step |-> "none", calls |-> <<>>, gm_ok |-> FALSE, timer_ok |-> FALSE,
           ops |-> <<>>, field |-> "", ready |-> <<>>,
           gm |-> <<>>, timer |-> <<>>, state |-> <<>>, before |-> NoBefore]

InitApp ==
    [ phase |-> "attach", resolved |-> <<>>, is_dlc |-> FALSE,
      gmw |-> <<>>, tw |-> <<>>, tsw |-> <<>>,
      run_time |-> 0, beyond_first_level |-> FALSE,
      split_called |-> FALSE,
      ts |-> "NotRunning",
      history |-> FALSE, game_time |-> 0, run |-> "none",
      last |-> NoStep ]

\* timer::set_variable for the five variables of a tick.
tick_variables(g) ==
    << <<"set_variable", "Points">>, <<"set_variable", "Resets">>,
       <<"set_variable", "Level Time">>,
       <<"set_variable", g.current.level_or_scene[1]>>,
       <<"set_variable", "Character">> >>

\* timer.check(|t| !t.timer_stopped) && game_manager.current.is_in_first_level()
starts_in_any_level(g, t) == t.old.timer_stopped /\ ~t.current.timer_stopped
starts(g, t) ==
    /\ t.old.timer_stopped /\ ~t.current.timer_stopped
    /\ is_in_first_level(g.current.level_or_scene)

\* The arm of `match timer_state.current` for a timer that is not running.
tick_not_running(a, g, t, ops) ==
    [a EXCEPT !.last.ops = IF starts(g, t) THEN ops \o << <<"start">> >> ELSE ops]

\* timer.current.level_time < timer.old.level_time
level_time_decreased(t) == t.current.level_time < t.old.level_time

\* The drop of the level time that resets the run.
resets_never(beyond_first_level, t) == FALSE
resets_on_any_drop(beyond_first_level, t) == level_time_decreased(t)
resets(beyond_first_level, t) == level_time_decreased(t) /\ ~beyond_first_level

\* timer::reset(); return;  the async block of until_closes ends, and with
\* it the session and its watchers.
reset_keeps_polling(a, ops) ==
    [a EXCEPT !.last.ops = ops \o << <<"reset">> >>]
reset_session(a, ops) ==
    [a EXCEPT !.last.ops = ops \o << <<"reset">> >>,
              !.phase = "attach", !.resolved = <<>>,
              !.gmw = <<>>, !.tw = <<>>, !.tsw = <<>>]

\* run_time += timer.old.level_time, at a drop of the level time.
run_time_plus_current(run_time, t) ==
    IF level_time_decreased(t) THEN run_time + t.current.level_time ELSE run_time
run_time_after(run_time, t) ==
    IF level_time_decreased(t) THEN run_time + t.old.level_time ELSE run_time

\* The condition of timer::split: RESULTS entered, or the credits entered
\* from the final level.
splits_while_in_results(g) ==
    \/ g.current.game_state = RESULTS
    \/ /\ is_in_final_level(g.old.level_or_scene)
       /\ is_in_credits(g.current.level_or_scene)
splits(g) ==
    \/ g.old.game_state # RESULTS /\ g.current.game_state = RESULTS
    \/ /\ is_in_final_level(g.old.level_or_scene)
       /\ is_in_credits(g.current.level_or_scene)

\* The arm for a running or paused timer.
tick_running(a, g, t, ops) ==
    IF resets(a.beyond_first_level, t)
    THEN reset_session(a, ops)
    ELSE LET run_time == run_time_after(a.run_time, t)
             split == splits(g)
         IN  [a EXCEPT !.run_time = run_time,
                   !.beyond_first_level = IF split THEN TRUE ELSE @,
                   !.split_called = IF split THEN TRUE ELSE @,
                   !.last.ops =
                       ops \o << <<"set_game_time", run_time + t.current.level_time>> >>
                           \o (IF split THEN << <<"split">> >> ELSE <<>>)]

\* if timer_state.changed_from(&TimerState::NotRunning) { .. }: the locals
\* and the operations of the block.
locals_kept(a, started) == a
locals_after_start(a, started) ==
    [a EXCEPT !.run_time = IF started THEN 0 ELSE @,
              !.beyond_first_level = IF started THEN FALSE ELSE @,
              !.split_called = IF started THEN FALSE ELSE @]
ops_after_start(started) ==
    IF started THEN << <<"pause_game_time">>, <<"set_game_time", 0>> >> ELSE <<>>

\* The body of `if let (Some(game_manager), Some(timer))`, the watchers of
\* the game manager and of the timer already updated in a.
tick_body(a, g, t) ==
    LET tsw == Watcher_update_infallible(a.tsw, a.ts)
        started == changed_from(tsw[1], "NotRunning")
        b == locals_after_start([a EXCEPT !.tsw = tsw, !.last.state = tsw], started)
        ops == tick_variables(g) \o ops_after_start(started)
    IN  IF tsw[1].current = "NotRunning" THEN tick_not_running(b, g, t, ops)
        ELSE IF tsw[1].current \in {"Paused", "Running"} THEN tick_running(b, g, t, ops)
        ELSE [b EXCEPT !.last.ops = ops]

\* The state of the runtime's timer after the operations of a step.
RECURSIVE timer_after_all(_, _)
timer_after_all(state, ops) ==
    IF ops = <<>> THEN state
    ELSE timer_after_all(timer_after(state, Head(ops)[1]), Tail(ops))

RECURSIVE game_time_after_all(_, _)
game_time_after_all(game_time, ops) ==
    IF ops = <<>> THEN game_time
    ELSE game_time_after_all(game_time_after(game_time, Head(ops)), Tail(ops))

\* The history of the timer's run after a step that takes the timer from
\* one state to another: "none" while the timer is NotRunning, "unseen" once
\* it has left NotRunning, "seen" once a tick has seen it leave NotRunning,
\* "missed" once a tick has set the game time without having seen that.
run_after(run, from, to, started, set) ==
    IF to = "NotRunning" THEN "none"
    ELSE IF from = "NotRunning" THEN "unseen"
    ELSE IF started THEN "seen"
    ELSE IF set /\ run = "unseen" THEN "missed"
    ELSE run

\* One iteration of the polling loop, the two decodes giving gm_read and
\* timer_read (<<>> for a failed decode).
tick(a, gm_read, timer_read) ==
    LET gmw == Watcher_update(a.gmw, game_manager_sample(gm_read))
        tw == Watcher_update(a.tw, timer_sample(timer_read))
        b == [a EXCEPT !.gmw = gmw, !.tw = tw,
                       !.last = [NoStep EXCEPT
                                    !.step = "tick", !.calls = tick_calls,
                                    !.gm_ok = gm_read # <<>>,
                                    !.timer_ok = timer_read # <<>>,
                                    !.gm = gmw, !.timer = tw,
                                    !.before = [run_time |-> a.run_time,
                                                beyond_first_level |-> a.beyond_first_level,
                                                split_called |-> a.split_called]]]
        c == IF both_samples(gmw, tw) THEN tick_body(b, gmw[1], tw[1]) ELSE b
        ts == timer_after_all(a.ts, c.last.ops)
    IN  [c EXCEPT !.ts = ts,
                  !.game_time = IF a.history THEN game_time_after_all(@, c.last.ops) ELSE @,
                  !.run =
                      IF a.history
                      THEN run_after(@, a.ts, ts,
                                     c.last.state # <<>>
                                       /\ changed_from(c.last.state[1], "NotRunning"),
                                     \E i \in 1..Len(c.last.ops) :
                                         c.last.ops[i][1] = "set_game_time")
                      ELSE @]

InitMain ==
    /\ mem = NoMem
    /\ decl = NoDesc
    /\ binding = <<>>
    /\ call = NoCall
    /\ it = NoIter
    /\ app = InitApp

\* retry(|| Process::attach(..)) succeeds: main enters until_closes and
\* GameInfo::load.
Attach ==
    /\ app.phase = "attach"
    /\ app' = [app EXCEPT !.phase = phase_after(0), !.resolved = <<>>,
                          !.last = [NoStep EXCEPT !.step = "attach"]]
    /\ UNCHANGED <<mem, decl, binding, call, it>>

\* What an await of GameInfo::load calls, and the static field it asks for.
load_calls(phase) ==
    IF phase \in {"game_manager_class", "timer_class"} THEN <<"bind">>
    ELSE IF phase \in {"game_manager_instance", "timer_instance"}
    THEN <<"get_static_instance">>
    ELSE <<>>
load_field(phase, dlc) ==
    IF phase = "game_manager_instance" THEN game_manager_instance_field
    ELSE IF phase = "timer_instance" THEN timer_instance_field(dlc)
    ELSE ""

\* The await GameInfo::load is at resolves; after the last one the watchers
\* are made and the polling loop is entered.  GameManagerBinding::bind
\* resolves at a poll that finds the lookup of the original class, of the
\* DLC class or of both ready.
LoadStep ==
    /\ app.phase \in { LoadSteps[n] : n \in 1..Len(LoadSteps) }
    /\ \E ready \in IF app.phase = "game_manager_class"
                    THEN { <<TRUE, TRUE>>, <<TRUE, FALSE>>, <<FALSE, TRUE>> }
                    ELSE { <<>> } :
       \E dlc \in { IF ready = <<>> THEN app.is_dlc
                    ELSE GameManagerBinding_bind(ready[1], ready[2]) } :
          app' = [app EXCEPT !.phase = phase_after(Len(app.resolved) + 1),
                             !.resolved = Append(@, app.phase),
                             !.is_dlc = dlc,
                             !.gmw = <<>>, !.tw = <<>>, !.tsw = <<>>,
                             !.last = [NoStep EXCEPT
                                          !.step = app.phase,
                                          !.calls = load_calls(app.phase),
                                          !.field = load_field(app.phase, dlc),
                                          !.ready = ready]]
    /\ UNCHANGED <<mem, decl, binding, call, it>>

\* One iteration of the polling loop.
Tick ==
    /\ app.phase = "tick"
    /\ \E gm_read \in {<<>>} \cup { <<g>> : g \in GameManagerSamples(app.is_dlc) },
          timer_read \in {<<>>} \cup { <<t>> : t \in TimerSamples } :
          \E a \in { tick(app, gm_read, timer_read) } :
              /\ a.run_time <= MaxRunTime
              /\ app' = a
    /\ UNCHANGED <<mem, decl, binding, call, it>>

\* The process closes: until_closes drops the session at its await.
Close ==
    /\ app.phase # "attach"
    /\ app' = [app EXCEPT !.phase = "attach", !.resolved = <<>>,
                          !.gmw = <<>>, !.tw = <<>>, !.tsw = <<>>,
                          !.last = [NoStep EXCEPT !.step = "close"]]
    /\ UNCHANGED <<mem, decl, binding, call, it>>

\* The runner (or the runtime, at the last split) changes the timer's state;
\* a reset takes the game time with it.
TimerEnv ==
    /\ \E state \in TimerStates \ {app.ts} :
          app' = [app EXCEPT !.ts = state,
                             !.game_time = IF app.history /\ state = "NotRunning" THEN 0 ELSE @,
                             !.run = IF app.history
                                     THEN run_after(@, app.ts, state, FALSE, FALSE)
                                     ELSE @]
    /\ UNCHANGED <<mem, decl, binding, call, it>>

NextMain == Attach \/ LoadStep \/ Tick \/ Close \/ TimerEnv

SpecMain == InitMain /\ [][NextMain]_vars

\* The main loop with the history of the runtime's timer recorded.
InitRun ==
    /\ mem = NoMem
    /\ decl = NoDesc
    /\ binding = <<>>
    /\ call = NoCall
    /\ it = NoIter
    /\ app = [InitApp EXCEPT !.history = TRUE]

SpecRun == InitRun /\ [][NextMain]_vars

----------------------------------------------------------------------------
(* What the image holds, read off the image itself (no fault, no chunking). *)

\* The string stored at address a: the bytes up to the first 0 byte.
StrAt(m, a) == (CHOOSE s \in m.data : s.at = a).chars

\* The classes of the image whose name and namespace are those of record d.
DeclClasses(m, d) ==
    { m.objs[a] : a \in { x \in {ClassAddr("TG"), ClassAddr("TN")} \cap DOMAIN m.objs :
                           /\ StrAt(m, m.objs[x].klass.name) = d.name
                           /\ StrAt(m, m.objs[x].klass.name_space) = d.name_space } }

\* The names in the field table of class c.
FieldNames(m, c) ==
    { StrAt(m, m.objs[c.klass.fields + SizeOfMonoClassField * i].name) :
        i \in 0..(c.field_count - 1) }

\* Some read of the last call failed.
SomeReadFailed ==
    \E j \in 1..Len(call.log) : ~Readable(mem, call.log[j][1], call.log[j][2])

\* The concatenation of the chains of a bucket layout, in bucket order.
RECURSIVE Flatten(_)
Flatten(chains) ==
    IF chains = <<>> THEN <<>> ELSE Head(chains) \o Flatten(Tail(chains))

\* The entries stored in the image's bucket array, bucket by bucket and each
\* chain from its head: the class records, or the (key, value) pairs.
StoredClasses(m) ==
    [k \in 1..Len(Flatten(m.layout)) |-> m.objs[ClassAddr(Flatten(m.layout)[k])]]
StoredSlots(m) ==
    [k \in 1..Len(Flatten(m.layout)) |->
        <<SlotKey(Flatten(m.layout)[k]), SlotValue(Flatten(m.layout)[k])>>]

\* Entry i (from 0) of the field table of class c, as stored in the image,
\* and the indices of the entries named fname.
FieldEntry(m, c, i) == m.objs[c.klass.fields + SizeOfMonoClassField * i]
Matching(m, c, fname) ==
    { i \in 0..(c.field_count - 1) : StrAt(m, FieldEntry(m, c, i).name) = fname }
FirstMatching(m, c, fname) ==
    CHOOSE i \in Matching(m, c, fname) : \A j \in Matching(m, c, fname) : i <= j

\* The static-storage pointer chase of class c,
\* as the image stores it: the address holding the vtable pointer, the
\* address holding the static-storage pointer, and the static-storage base.
VTablePtrAt(c) == c.klass.runtime_info + SizeOfMonoClassRuntimeInfo
StaticBasePtrAt(m, c) ==
    m.objs[VTablePtrAt(c)] + SizeOfMonoVTable + SizeOfPtr * c.klass.vtable_size
StaticBase(m, c) == m.objs[StaticBasePtrAt(m, c)]


\* Of the last call: a pointer read of the chase failed; the pointer read in
\* the static storage is null.
ChaseReadFailed ==
    \E j \in 1..Len(call.log) :
        /\ call.log[j][2] = SizeOfPtr
        /\ ~( Readable(mem, call.log[j][1], SizeOfPtr) /\ call.log[j][1] \in DOMAIN mem.objs )
NullValueRead ==
    \E j \in 1..Len(call.log) :
        /\ call.log[j] \in { <<StaticAddr + off, SizeOfPtr>> : off \in 0..8 }
        /\ Readable(mem, call.log[j][1], SizeOfPtr)
        /\ call.log[j][1] \in DOMAIN mem.objs
        /\ is_null(mem.objs[call.log[j][1]])

\* The image without its faults, and a record type without its last field.
Healed(m) == [m EXCEPT !.unmapped = {0}]
ButLast(d) == [d EXCEPT !.fields = SubSeq(d.fields, 1, Len(d.fields) - 1)]

----------------------------------------------------------------------------
(* Properties. *)

\* C1: whenever all the bytes of a NUL-terminated string (terminator
\* included) are readable, read_str hands its consumer exactly the bytes from
\* the start address up to the first NUL, wherever the start lies in its page
\* and however long the string is.
C1_ExactBytes ==
    ( /\ call.op = "read_str"
      /\ Readable(mem, mem.ptr, Len(StrAt(mem, mem.ptr)) + 1) )
    => /\ call.tag = "Ok"
       /\ call.val = StrAt(mem, mem.ptr)

\* C2: an operation one of whose remote reads failed does not panic.
C2_NoPanicOnFailedRead ==
    SomeReadFailed => call.tag # "Panic"

\* C3: when read_str has read chunk after chunk without a failure and without
\* a NUL byte in any of them, and the next chunk no longer fits the 32 KiB
\* buffer, the call ends as a reported failure, not as a panic.
C3_ExhaustionIsFailure ==
    ( /\ call.op = "read_str"
      /\ Len(call.log) > 0
      /\ \A j \in 1..Len(call.log) :
            /\ Readable(mem, call.log[j][1], call.log[j][2])
            /\ find_byte_0(mem, call.log[j][1], call.log[j][2]) < 0
      /\ used_before(mem.ptr, Len(call.log))
            + chunk_len(chunk_addr(mem.ptr, Len(call.log))) > StrBufLen )
    => call.tag = "Err"

\* C4: bind then load round trip: on an image without faults, for a bound
\* record whose every field lies inside the instance size (itself within the
\* local buffer), load of the readable instance returns, for every field, the
\* bytes stored at the field's offset in the instance.
C4_RoundTrip ==
    ( /\ call.op = "load"
      /\ call.instance = mem.instance
      /\ mem.unmapped = {0}
      /\ binding[1].class.klass.instance_size \in 0..InstanceBufLen
      /\ \A k \in 1..Len(binding[1].offsets) :
            /\ binding[1].offsets[k] >= 0
            /\ binding[1].offsets[k] + binding[1].desc.fields[k].size
                  <= binding[1].class.klass.instance_size )
    => /\ call.tag = "Ok"
       /\ call.val = [k \in 1..Len(binding[1].offsets) |->
                        BytesAt(mem, mem.instance + binding[1].offsets[k],
                                binding[1].desc.fields[k].size)]

\* C5: when the class of the record type exists and one of the declared
\* fields is absent from its field table, bind returns failure.
C5_AbsentFieldFails ==
    ( /\ call.op = "bind"
      /\ \E c \in DeclClasses(mem, decl) :
            \E k \in 1..Len(decl.fields) : decl.fields[k].name \notin FieldNames(mem, c) )
    => call.tag = "Err"

\* C6: when the binding is satisfiable on the image without its faults, the
\* class and all fields but the last resolve on the image as it is without a
\* failed read, and a remote read fails while the last field is resolved,
\* bind returns failure.
C6_LastFieldFaultFails ==
    ( /\ call.op = "bind"
      /\ SomeReadFailed
      /\ bind(Healed(mem), mem.image, decl).tag = "Ok"
      /\ LET pre == bind(mem, mem.image, ButLast(decl))
         IN  /\ pre.tag = "Ok"
             /\ \A j \in 1..Len(pre.log) : Readable(mem, pre.log[j][1], pre.log[j][2]) )
    => call.tag = "Err"

\* C7: when some bound field's offset + size exceeds the instance size, load
\* returns failure and takes no byte range ending past the snapshot.
C7_BoundsRejected ==
    ( /\ call.op = "load"
      /\ \E k \in 1..Len(binding[1].offsets) :
            binding[1].offsets[k] + binding[1].desc.fields[k].size
                > binding[1].class.klass.instance_size )
    => /\ call.tag = "Err"
       /\ \A j \in 1..Len(call.touched) :
            call.touched[j] <= binding[1].class.klass.instance_size

\* C8 as stated: every load issues exactly one remote read, of instance_size
\* bytes at the instance pointer.
C8_ExactlyOneRead ==
    call.op = "load"
    => call.log = << <<call.instance, binding[1].class.klass.instance_size>> >>

\* C8 amended: a load issues one remote read, of instance_size bytes at the
\* instance pointer, when instance_size is within the 4 KiB buffer, and none
\* otherwise; every byte range a field is decoded from lies in that snapshot,
\* and a returned field value is the snapshot's bytes at the field's offset.
C8_AtMostOneRead ==
    call.op = "load"
    => LET b == binding[1]
           n == b.class.klass.instance_size
       IN  /\ call.log = IF n \in 0..InstanceBufLen
                         THEN << <<call.instance, n>> >>
                         ELSE <<>>
           /\ \A j \in 1..Len(call.touched) : call.touched[j] <= n
           /\ call.tag = "Ok" =>
                call.val = [k \in 1..Len(b.offsets) |->
                              BytesAt(mem, call.instance + b.offsets[k],
                                      b.desc.fields[k].size)]

\* C8: a load of a two-field record that returned the record after its one read.
C8_Witness ==
    /\ call.op = "load"
    /\ call.tag = "Ok"
    /\ Len(call.val) = 2
    /\ Len(call.log) = 1

\* C9: when instance_size is negative or exceeds the 4 KiB buffer, load
\* (through get_instance) fails with no remote read and without calling the
\* decode closure; the closure is called only after the one read of
\* instance_size bytes at the instance pointer succeeded.
C9_CapBeforeRead ==
    call.op = "load"
    => LET n == binding[1].class.klass.instance_size
       IN  /\ n \notin 0..InstanceBufLen
                => call.tag = "Err" /\ call.log = <<>> /\ ~call.fcalled
           /\ call.fcalled
                => /\ call.log = << <<call.instance, n>> >>
                   /\ Readable(mem, call.instance, n)

\* C9: a load through a class whose instance_size exceeds the buffer: it
\* failed and issued no read.
C9_Witness ==
    /\ call.op = "load"
    /\ binding[1].class.klass.instance_size > InstanceBufLen
    /\ call.tag = "Err"
    /\ call.log = <<>>

\* C10: the outcome of a load that fails because instance_size exceeds the
\* buffer differs from the outcome of a load that fails on its remote read
\* (the same binding with a size that fits, on the unmapped address 0).
C10_CapFailureDistinct ==
    ( /\ call.op = "load"
      /\ binding[1].class.klass.instance_size \notin 0..InstanceBufLen )
    => LET fits == [binding[1] EXCEPT !.class.klass.instance_size = SizeOfPtr]
           r == load(mem, fits, 0, call.base)
       IN  <<call.tag, call.val>> # <<r.tag, r.val>>

\* C11: the pointer 0 is null, and every dereference of it (read, index,
\* read_str, load with a null instance pointer) fails without issuing a
\* remote read.
C11_NullNeverRead ==
    /\ is_null(0)
    /\ ( \/ call.op \in {"null_read", "null_index", "null_read_str"}
         \/ call.op = "load" /\ is_null(call.instance) )
       => call.tag = "Err" /\ call.log = <<>>

\* C12: when every read succeeds, the enumeration of a bucket array
\* (MonoImage::classes, GHashTable::iter) yields exactly the stored entries,
\* each once, bucket by bucket in index order and each chain in chain order.
C12_TraversalComplete ==
    /\ (call.op = "classes" /\ ~SomeReadFailed)
       => call.tag = "Ok" /\ call.val = StoredClasses(mem)
    /\ (call.op = "hash_iter" /\ ~SomeReadFailed)
       => call.tag = "Ok" /\ call.val = StoredSlots(mem)

\* Three slots in two chains around an empty bucket have been enumerated.
C12_Witness ==
    /\ call.op = "hash_iter"
    /\ ~SomeReadFailed
    /\ mem.layout = << <<2, 1>>, <<>>, <<3>> >>
    /\ call.val = << <<SlotKey(2), SlotValue(2)>>, <<SlotKey(1), SlotValue(1)>>,
                     <<SlotKey(3), SlotValue(3)>> >>
    /\ Len(call.log) = 6

C14_PartialNeverReturned ==
    (call.op \in {"read_str", "classes", "hash_iter", "list_iter", "fields"}
     /\ SomeReadFailed)
    => call.tag # "Ok"

\* C15: find_field returns the offset of the entry of lowest index whose name
\* is the requested name, and a lookup failure when no entry has that name.
C15_FirstMatchWins ==
    call.op = "find_field"
    => IF Matching(mem, call.class, call.name) = {}
       THEN call.tag = "Err"
       ELSE /\ call.tag = "Ok"
            /\ call.val = FieldEntry(mem, call.class,
                                     FirstMatching(mem, call.class, call.name)).offset

\* C16: find_singleton never returns success with a null pointer: it returns
\* the pointer stored at the static-storage base plus the offset of the named
\* field when that pointer is not null, and it returns failure when the field
\* is not found, when a read of the pointer chase fails, or when the pointer
\* is null.
C16_SingletonNeverNull ==
    call.op = "find_singleton"
    => /\ call.tag = "Ok"
          => /\ ~is_null(call.val)
             /\ Matching(mem, call.class, call.name) # {}
             /\ call.val = mem.objs[StaticBase(mem, call.class)
                                    + FieldEntry(mem, call.class,
                                                 FirstMatching(mem, call.class,
                                                               call.name)).offset]
       /\ Matching(mem, call.class, call.name) = {} => call.tag = "Err"
       /\ ChaseReadFailed => call.tag = "Err"
       /\ NullValueRead => call.tag = "Err"

\* C20: every chunk read_str requests has the length min(256, distance from
\* the chunk's start to the next 4 KiB boundary): it has at least one byte
\* and lies within one page.
C20_ChunkWithinPage ==
    call.op \in {"read_str", "null_read_str"}
    => \A j \in 1..Len(call.log) :
          /\ call.log[j][2]
               = MinOf({ChunkCap, PageSize - (call.log[j][1] % PageSize)})
          /\ call.log[j][2] >= 1
          /\ PageOf(call.log[j][1]) = PageOf(call.log[j][1] + call.log[j][2] - 1)

\* A string read in a first chunk cut short by the page boundary (its one
\* byte before the boundary) and a second chunk of the full 256 bytes.
C20_Witness ==
    /\ call.op = "read_str"
    /\ call.tag = "Ok"
    /\ call.log = << <<2 * PageSize - 1, 1>>, <<2 * PageSize, ChunkCap>> >>

\* C17: within a session the bindings and the instance pointers are resolved
\* once, before the first tick: the polling loop is entered with each await
\* of the load resolved exactly once, and a tick calls nothing but the two
\* decodes and leaves what the load resolved as it is.
C17_ResolvedOnceBeforePolling ==
    /\ [](app.phase = "tick" => app.resolved = LoadSteps)
    /\ [](app.last.step = "tick" => app.last.calls = <<"read", "read">>)
    /\ [][ (app'.last.step = "tick" /\ app'.phase = "tick")
           => app'.resolved = app.resolved /\ app'.is_dlc = app.is_dlc ]_vars

\* A tick has decoded both records and has set the five variables.
C17_Witness ==
    /\ app.phase = "tick"
    /\ app.last.step = "tick"
    /\ app.last.gm_ok /\ app.last.timer_ok
    /\ Len(app.last.ops) >= 5

\* C18: a tick in which the decode of the game manager or of the timer fails
\* calls no timer operation, leaves run_time and beyond_first_level as they
\* are, and stays in the polling loop of the same session.
C18_FailedDecodeSkipsTick ==
    [][ (app'.last.step = "tick" /\ ~(app'.last.gm_ok /\ app'.last.timer_ok))
        => /\ app'.last.ops = <<>>
           /\ app'.run_time = app.run_time
           /\ app'.beyond_first_level = app.beyond_first_level
           /\ app'.phase = "tick"
           /\ app'.resolved = app.resolved ]_vars

\* While the timer runs, a tick has decoded the timer but not the game
\* manager.
C18_Witness ==
    /\ app.last.step = "tick"
    /\ ~app.last.gm_ok /\ app.last.timer_ok
    /\ app.ts = "Running"
    /\ app.tsw # <<>>
    /\ app.run_time = 1

\* C19: the load resolves module, image, game manager class and instance,
\* timer class and instance in this order, skipping none; main is in the
\* polling loop only when all six are resolved, and a step that decodes
\* starts in the polling loop.
C19_AttachOrder ==
    /\ [](\E n \in 0..Len(LoadSteps) : app.resolved = SubSeq(LoadSteps, 1, n))
    /\ [](app.phase \notin {"attach", "none"} => app.phase = phase_after(Len(app.resolved)))
    /\ [](app.phase = "tick" <=> app.resolved = LoadSteps)
    /\ [][ (app'.last.step = "tick" /\ app'.last # app.last)
           => app.phase = "tick" /\ app.resolved = LoadSteps ]_vars

\* The first tick of a session: the instance of the timer was the last thing
\* resolved, and both watchers hold their first sample.
C19_Witness ==
    /\ app.last.step = "tick"
    /\ app.resolved = LoadSteps
    /\ app.gmw # <<>> /\ app.tw # <<>>
    /\ app.tsw # <<>> /\ app.tsw[1].old = app.tsw[1].current
    /\ app.is_dlc

----------------------------------------------------------------------------
(* The claims about the decisions of a tick.  They are read off the step    *)
(* main made last: what the tick's body saw in the three watchers, the      *)
(* locals as they were when the tick began, and the operations it called.   *)

\* The last step was a tick whose two decodes succeeded.
TickDecoded == app.last.step = "tick" /\ app.last.gm_ok /\ app.last.timer_ok

\* The positions in the operations of the last step at which op was called.
Calls(op) == { i \in 1..Len(app.last.ops) : app.last.ops[i][1] = op }

\* The timer state, the timer sample pair and the game manager sample pair
\* the last tick saw.
SeenState == app.last.state[1]
SeenTimer == app.last.timer[1]
SeenGameManager == app.last.gm[1]

\* C21: GameManagerBinding::bind gives the binding whose lookup is ready
\* first, the original one when both are ready at the same poll; a session
\* has one variant, the one its samples are decoded with; and the static
\* field asked for the Timer singleton is "<Instance>k__BackingField" exactly
\* when the DLC variant was chosen, "_instance" otherwise.
C21_BindRace ==
    /\ app.last.step = "game_manager_class"
         => /\ app.last.ready[1] \/ app.last.ready[2]
            /\ app.is_dlc <=> ~app.last.ready[1]
    /\ Cardinality({ n \in 1..Len(app.resolved) : app.resolved[n] = "game_manager_class" }) <= 1
    /\ app.gmw # <<>>
         => /\ (app.gmw[1].old.level_or_scene[1] = "Scene") <=> app.is_dlc
            /\ (app.gmw[1].current.level_or_scene[1] = "Scene") <=> app.is_dlc
    /\ app.last.step = "timer_instance"
         => /\ app.last.field \in { "<Instance>k__BackingField", "_instance" }
            /\ app.last.field = "<Instance>k__BackingField" <=> app.is_dlc

\* Both lookups were ready at the poll that resolved the race, and the
\* original binding was taken.
C21_Witness ==
    /\ app.last.step = "game_manager_class"
    /\ app.last.ready = <<TRUE, TRUE>>
    /\ ~app.is_dlc

\* C22: timer::start is called in a tick exactly when the tick decoded both
\* samples, saw the timer NotRunning, timer_stopped true in the previous
\* timer sample and false in the current one, and the current game manager
\* sample in the first level (level 0, or the scene "Shrine01"); it is called
\* once then, and in no other tick.
C22_StartOnlyInFirstLevel ==
    /\ Calls("start") # {}
         <=> /\ TickDecoded
             /\ SeenState.current = "NotRunning"
             /\ SeenTimer.old.timer_stopped
             /\ ~SeenTimer.current.timer_stopped
             /\ SeenGameManager.current.level_or_scene \in { Level(0), Scene("Shrine01") }
    /\ Cardinality(Calls("start")) <= 1

\* A tick of a DLC session has called timer::start, and the timer runs.
C22_Witness ==
    /\ TickDecoded
    /\ Calls("start") # {}
    /\ app.is_dlc
    /\ app.ts = "Running"

\* The last tick saw the timer leave NotRunning, and the locals its
\* decisions were made with: those of the tick's beginning, or zero and
\* false when it saw the timer leave NotRunning.
SawStart == SeenState.old = "NotRunning" /\ SeenState.current # "NotRunning"
RunTimeAtDecision == IF SawStart THEN 0 ELSE app.last.before.run_time
BeyondAtDecision == IF SawStart THEN FALSE ELSE app.last.before.beyond_first_level

\* The last tick saw the timer Running or Paused.
SawRunning == TickDecoded /\ SeenState.current \in {"Running", "Paused"}

\* The last tick saw the level time drop.
SawDrop == SeenTimer.current.level_time < SeenTimer.old.level_time

\* The last tick saw the timer running and the level time drop with
\* beyond_first_level false.
ResetCase == SawRunning /\ SawDrop /\ ~BeyondAtDecision

\* C23, as amended: on a tick that sees the timer Running or Paused and the
\* level time drop while beyond_first_level is false at the decision,
\* timer::reset is the last operation of the tick: neither set_game_time nor
\* split follows it, the only set_game_time of the tick is the one of zero
\* of a tick that has just seen the timer leave NotRunning, run_time is as it
\* was at the decision, and main is back at the attach, the session and its
\* watchers gone.  No other tick calls timer::reset.
C23_ResetEndsSession ==
    /\ ResetCase
         => /\ Calls("reset") = { Len(app.last.ops) }
            /\ Calls("split") = {}
            /\ Calls("set_game_time") = IF SawStart THEN {7} ELSE {}
            /\ SawStart => app.last.ops[7] = <<"set_game_time", 0>>
            /\ app.run_time = RunTimeAtDecision
            /\ ~app.beyond_first_level
            /\ app.phase = "attach" /\ app.resolved = <<>>
            /\ app.gmw = <<>> /\ app.tw = <<>> /\ app.tsw = <<>>
    /\ Calls("reset") # {} => ResetCase

\* C23, as stated: on a tick that sees the timer Running or Paused and the
\* level time drop, beyond_first_level false since before the tick, the tick
\* calls neither set_game_time nor split and leaves run_time as it was.
C23_ResetCallsNothingElse ==
    (ResetCase /\ ~app.last.before.beyond_first_level)
        => /\ Calls("reset") # {}
           /\ Calls("set_game_time") = {}
           /\ Calls("split") = {}
           /\ app.run_time = app.last.before.run_time
           /\ app.phase = "attach"

\* A tick has seen the timer leave NotRunning and the level time drop: it
\* has set the game time to zero and then reset the timer.
C23_Witness ==
    /\ ResetCase
    /\ SawStart
    /\ Calls("reset") # {}
    /\ app.phase = "attach"
    /\ app.ts = "NotRunning"

\* The last tick saw RESULTS entered, or the credits entered from the final
\* level.
SawResultsEntered ==
    /\ SeenGameManager.old.game_state # 6
    /\ SeenGameManager.current.game_state = 6
SawCreditsEntered ==
    /\ SeenGameManager.old.level_or_scene[1] = "Level"
    /\ SeenGameManager.old.level_or_scene[2] >= 13
    /\ SeenGameManager.current.level_or_scene = Level(2)

\* C24, as amended: timer::split is called, once, exactly in the ticks that
\* see the timer Running or Paused, do not reset, and see RESULTS entered or
\* the credits entered from the final level; beyond_first_level is set in
\* exactly those ticks; in a tick whose previous and current sample are both
\* in RESULTS split is called only for the credits entered from the final
\* level.
C24_SplitOnlyWhen ==
    /\ Calls("split") # {}
         <=> /\ SawRunning
             /\ ~ResetCase
             /\ SawResultsEntered \/ SawCreditsEntered
    /\ Cardinality(Calls("split")) <= 1
    /\ TickDecoded
         => app.beyond_first_level = (IF Calls("split") # {} THEN TRUE ELSE BeyondAtDecision)
    /\ ( /\ TickDecoded
         /\ SeenGameManager.old.game_state = 6
         /\ SeenGameManager.current.game_state = 6
         /\ Calls("split") # {} )
         => SawCreditsEntered

\* C24, as stated: during a stay in RESULTS over consecutive decoded ticks
\* split is called on the first tick only.
C24_SplitOncePerResults ==
    ( /\ TickDecoded
      /\ SeenGameManager.old.game_state = 6
      /\ SeenGameManager.current.game_state = 6 )
        => Calls("split") = {}

\* A tick has seen RESULTS entered in the first level: it has called split
\* and set beyond_first_level, which was false.
C24_Witness ==
    /\ SawRunning
    /\ SawResultsEntered
    /\ Calls("split") # {}
    /\ ~app.last.before.beyond_first_level
    /\ app.beyond_first_level
    /\ SeenGameManager.current.level_or_scene = Level(0)

\* C25: a tick that sees the timer Running or Paused and does not reset
\* leaves run_time as it was at the decision, plus the previous sample's
\* level_time when the level time dropped (so with beyond_first_level true
\* at a drop run_time grows by exactly that, once), and then sets the game
\* time to that run_time plus the current level_time, in one call.
C25_RunTimeAccumulates ==
    /\ (SawRunning /\ ~ResetCase)
         => /\ app.run_time = RunTimeAtDecision
                              + (IF SawDrop THEN SeenTimer.old.level_time ELSE 0)
            /\ Calls("set_game_time") = IF SawStart THEN {7, 8} ELSE {6}
            /\ app.last.ops[IF SawStart THEN 8 ELSE 6]
                 = <<"set_game_time", app.run_time + SeenTimer.current.level_time>>
    /\ (SawRunning /\ SawDrop /\ BeyondAtDecision)
         => app.run_time = app.last.before.run_time + SeenTimer.old.level_time

\* A tick has seen the level time drop from 1 with beyond_first_level true:
\* run_time has grown from 0 to 1, and split was not called.
C25_Witness ==
    /\ SawRunning /\ SawDrop /\ BeyondAtDecision
    /\ SeenTimer.old.level_time = 1
    /\ app.last.before.run_time = 0
    /\ app.run_time = 1
    /\ Calls("split") = {}

\* C26: a tick that sees the timer leave NotRunning calls pause_game_time
\* and set_game_time(zero) right after the variables and before any start,
\* reset, split or other set_game_time, and its decisions are made with
\* run_time zero and beyond_first_level false: a drop of the level time
\* resets, the game time is set to the level time alone, run_time is zero
\* after the tick and beyond_first_level is true only by a split of the same
\* tick.  No other tick pauses the game time.
C26_StartBlockFirst ==
    /\ (TickDecoded /\ SawStart)
         => /\ Len(app.last.ops) >= 7
            /\ app.last.ops[6] = <<"pause_game_time">>
            /\ app.last.ops[7] = <<"set_game_time", 0>>
            /\ \A i \in Calls("start") \cup Calls("reset") \cup Calls("split") : i > 7
            /\ \A i \in Calls("set_game_time") : i >= 7
            /\ app.run_time = 0
            /\ app.beyond_first_level <=> Calls("split") # {}
            /\ (SawRunning /\ SawDrop) => Calls("reset") # {}
            /\ (SawRunning /\ ~SawDrop)
                 => app.last.ops[8] = <<"set_game_time", SeenTimer.current.level_time>>
    /\ (TickDecoded /\ ~SawStart) => Calls("pause_game_time") = {}

\* A tick has seen the timer leave NotRunning with run_time 1 and
\* beyond_first_level true left from an earlier run, and no drop.
C26_Witness ==
    /\ TickDecoded /\ SawStart
    /\ app.last.before.run_time = 1
    /\ app.last.before.beyond_first_level
    /\ SawRunning /\ ~SawDrop
    /\ SeenTimer.current.level_time = 1

\* C28: whenever beyond_first_level is false, run_time is zero.
C28_RunTimeZeroInFirstLevel == ~app.beyond_first_level => app.run_time = 0

\* A tick has seen the timer leave NotRunning and the level time drop with
\* run_time 1 and beyond_first_level true: both are cleared and the tick has
\* reset.
C28_Witness ==
    /\ TickDecoded
    /\ app.last.before.run_time = 1
    /\ app.last.before.beyond_first_level
    /\ ~app.beyond_first_level
    /\ app.run_time = 0
    /\ Calls("reset") # {}

\* C30: a tick calls timer::reset only if split was not called since a tick
\* last saw the timer leave NotRunning, or if it sees the timer leave
\* NotRunning itself; a drop of the level time seen after a split only adds
\* the previous level time to run_time.
C30_NoResetAfterSplit ==
    /\ Calls("reset") # {} => (~app.last.before.split_called \/ SawStart)
    /\ (SawRunning /\ SawDrop /\ app.last.before.split_called /\ ~SawStart)
         => /\ Calls("reset") = {}
            /\ app.phase = "tick"
            /\ app.run_time = app.last.before.run_time + SeenTimer.old.level_time

\* A tick has seen the level time drop after a split of the same run: it has
\* not reset, and the session goes on.
C30_Witness ==
    /\ SawRunning /\ SawDrop /\ ~SawStart
    /\ app.last.before.split_called
    /\ Calls("reset") = {}
    /\ Calls("set_game_time") # {}
    /\ app.phase = "tick"

----------------------------------------------------------------------------
(* The claims about a run of the runtime's timer, checked with its history  *)
(* recorded (SpecRun).                                                      *)

\* The step is a tick, and the values it passed to timer::set_game_time.
IsTick == app'.last.step = "tick" /\ app'.last # app.last
GameTimesSet ==
    { app'.last.ops[i][2] :
        i \in { j \in 1..Len(app'.last.ops) : app'.last.ops[j][1] = "set_game_time" } }

\* C27: when the timer has left NotRunning, the next tick that sets the game
\* time does so with run_time zero and beyond_first_level false: it sees the
\* timer leave NotRunning and clears them, or they are zero and false
\* already.
C27_ClearedAtEveryStart ==
    [][ (IsTick /\ app.run = "unseen" /\ GameTimesSet # {})
        => \/ /\ app'.last.state[1].old = "NotRunning"
              /\ app'.last.state[1].current # "NotRunning"
           \/ app.run_time = 0 /\ ~app.beyond_first_level ]_vars

\* C29: in a run that a tick has seen begin, and while the timer is not
\* reset, no value passed to set_game_time is below the one passed before
\* it.
C29_GameTimeNeverDecreases ==
    [][ (IsTick /\ app.run = "seen") => \A v \in GameTimesSet : v >= app.game_time ]_vars

====
